---- MODULE Spec2Model ----
(***************************************************************************)
(* Model of cs231n/data_augmentation.py: five batch transforms on an       *)
(* ndarray X of shape (N, C, H, W).                                        *)
(*                                                                         *)
(* An ndarray object is a descriptor over a storage buffer: it either owns *)
(* a newly allocated buffer (base = "new") or is a basic-slicing view of   *)
(* the caller's array X (base = "X", with a row/column offset).  A caller  *)
(* calls one function on X and may afterwards write to a cell of the       *)
(* returned array.                                                         *)
(*                                                                         *)
(* Indices are 0-based as in the source.  `/` on integers is the integer   *)
(* (floor) division of the Python 2 dialect the file is written in.        *)
(* Floating-point results are fixed-point numerators over Den; the field   *)
(* den of a descriptor is 1 for X's own dtype and Den for a float result.  *)
(***************************************************************************)
EXTENDS Integers, Sequences, FiniteSets, TLC

VARIABLES
    Xbuf,    \* the caller's array X: its shape and the cells of its storage
    pc,      \* "idle" (before the call), "returned", "raised", "written"
    call,    \* the function called and its arguments
    out,     \* descriptor of the returned array (NoOut if none)
    newbuf,  \* cells of the storage the call allocated for its result
    err,     \* the exception raised (NoErr if none)
    rng      \* number of sampling calls made on the global np.random state

vars == <<Xbuf, pc, call, out, newbuf, err, rng>>

(* ---------------------------- bounds ----------------------------------- *)
MaxN == 2
MaxC == 2
MaxDim == 3
MaxPlanes == 4
Den == 2

(* ------------------------- ndarray helpers ------------------------------ *)
Idx(shape) ==
    (0..(shape[1]-1)) \X (0..(shape[2]-1)) \X (0..(shape[3]-1)) \X (0..(shape[4]-1))

Shapes ==
    {s \in (0..MaxN) \X (1..MaxC) \X (1..MaxDim) \X (1..MaxDim) : s[1] * s[2] <= MaxPlanes}

Patterns == {"coded", "mixed"}

(* The caller's batch: "coded" gives every cell a distinct value, "mixed"  *)
(* has repeated, zero and negative values.                                 *)
MakeX(p, shape) ==
    [shape |-> shape,
     data  |-> [i \in Idx(shape) |->
                  IF p = "coded"
                  THEN 1000 * i[1] + 100 * i[2] + 10 * i[3] + i[4] + 1
                  ELSE (i[3] - i[4]) * (i[2] + 1) - i[1]]]

NoBuf == <<>>
NoOut == [base |-> "none", shape |-> <<0, 0, 0, 0>>, off |-> <<0, 0>>, den |-> 1]
NoErr == <<>>
NoCall == [fn |-> "", crop_shape |-> <<0, 0>>, crop_type |-> "", scale |-> <<0, 0>>]

(* np.zeros_like(X) / np.zeros(shape): a fresh buffer of zeros *)
zeros(shape) == [i \in Idx(shape) |-> 0]

(* faulty variant: the result is X itself instead of a new array *)
NewArrayAliased(shape, den) ==
    [base |-> "X", shape |-> shape, off |-> <<0, 0>>, den |-> den]

(* descriptor of an array that owns newly allocated storage *)
NewArray(shape, den) ==
    [base |-> "new", shape |-> shape, off |-> <<0, 0>>, den |-> den]

(* cell idx of the returned array, read through its descriptor *)
ReadOut(i) ==
    IF out.base = "X"
    THEN Xbuf.data[<<i[1], i[2], out.off[1] + i[3], out.off[2] + i[4]>>]
    ELSE newbuf[i]

(* --------------------------- random_flips ------------------------------- *)
(* faulty variant: only channel 0 of a selected image is reversed *)
random_flips_data_perchannel(X, mask) ==
    [i \in Idx(X.shape) |->
        IF mask[i[1]] = 1 /\ i[2] = 0
        THEN X.data[<<i[1], i[2], i[3], X.shape[4] - 1 - i[4]>>]
        ELSE X.data[i]]

random_flips_data(X, mask) ==
    LET W    == X.shape[4]
        out0 == zeros(X.shape)
        out1 == [i \in Idx(X.shape) |->
                    IF mask[i[1]] = 1
                    THEN X.data[<<i[1], i[2], i[3], W - 1 - i[4]>>]
                    ELSE out0[i]]
        out2 == [i \in Idx(X.shape) |->
                    IF mask[i[1]] = 0 THEN X.data[i] ELSE out1[i]]
    IN  out2

CallRandomFlips ==
    /\ pc = "idle"
    /\ \E mask \in [0..(Xbuf.shape[1]-1) -> {0, 1}] :
          /\ newbuf' = random_flips_data(Xbuf, mask)
          /\ out' = NewArray(Xbuf.shape, 1)
    /\ call' = [NoCall EXCEPT !.fn = "random_flips"]
    /\ rng' = rng + 1
    /\ pc' = "returned"
    /\ UNCHANGED <<Xbuf, err>>

(* ------------------------- basic slicing -------------------------------- *)
(* An optional slice bound: None is an omitted bound, Some(v) the bound v. *)
None == <<>>
Some(v) == <<v>>

Min(a, b) == IF a < b THEN a ELSE b
Max(a, b) == IF a > b THEN a ELSE b

(* faulty variant: a negative bound is clipped to 0 instead of counting from the end *)
PySliceNoWrap(start, stop, len) ==
    LET norm(v) == IF v < 0 THEN 0 ELSE Min(v, len)
        lo == IF start = None THEN 0 ELSE norm(start[1])
        hi == IF stop = None THEN len ELSE norm(stop[1])
    IN  <<lo, Max(lo, hi)>>

(* start:stop applied to an axis of length len (step 1): a negative bound  *)
(* counts from the end, bounds are clipped to the axis; gives <<lo, hi>>,  *)
(* the half-open range of selected positions.                              *)
PySlice(start, stop, len) ==
    LET norm(v) == IF v < 0 THEN Max(v + len, 0) ELSE Min(v, len)
        lo == IF start = None THEN 0 ELSE norm(start[1])
        hi == IF stop = None THEN len ELSE norm(stop[1])
    IN  <<lo, Max(lo, hi)>>

(* X[:, :, hs[1]:hs[2], ws[1]:ws[2]]: basic slicing gives a view of X *)
View(X, hs, ws) ==
    LET rh == PySlice(hs[1], hs[2], X.shape[3])
        rw == PySlice(ws[1], ws[2], X.shape[4])
    IN  [base  |-> "X",
         shape |-> <<X.shape[1], X.shape[2], rh[2] - rh[1], rw[2] - rw[1]>>,
         off   |-> <<rh[1], rw[1]>>,
         den   |-> 1]

(* ------------------------- np.random ------------------------------------ *)
(* faulty variant: the upper bound is included *)
randint_inclusive(high) == 0..high

(* np.random.randint(high): the integers of [0, high) *)
randint(high) == 0..(high - 1)

(* np.random.random_sample() and the unit draw of np.random.uniform: r in  *)
(* [0, 1), here k / Den for a k in Draws                                   *)
Draws == 0..(Den - 1)

(* np.random.uniform(low, high) = low + (high - low) * r, as numerator     *)
(* over Den                                                                *)
uniform(low, high, k) == low * Den + (high - low) * k

(* --------------------------- random_crops ------------------------------- *)
(* faulty variant: <= instead of < *)
crop_precondition_weak(crop_shape, shape) ==
    crop_shape[1] <= shape[3] /\ crop_shape[2] <= shape[4]

(* assert HH < H and WW < W *)
crop_precondition(crop_shape, shape) ==
    crop_shape[1] < shape[3] /\ crop_shape[2] < shape[4]

(* faulty variant: HH and WW exchanged *)
random_crops_view_swapped(X, crop_shape, x, y) ==
    View(X, <<Some(x), Some(x + crop_shape[2])>>, <<Some(y), Some(y + crop_shape[1])>>)

(* out = X[:, :, x:x + HH, y:y + WW] *)
random_crops_view(X, crop_shape, x, y) ==
    View(X, <<Some(x), Some(x + crop_shape[1])>>, <<Some(y), Some(y + crop_shape[2])>>)

CropDims == 0..MaxDim

CallRandomCrops ==
    /\ pc = "idle"
    /\ \E cs \in CropDims \X CropDims :
          LET H == Xbuf.shape[3]
              W == Xbuf.shape[4]
              xs == randint(H - cs[1])
              ys == randint(W - cs[2])
          IN  /\ call' = [NoCall EXCEPT !.fn = "random_crops", !.crop_shape = cs]
              /\ IF ~crop_precondition(cs, Xbuf.shape)
                 THEN /\ err' = <<"AssertionError">>
                      /\ pc' = "raised"
                      /\ UNCHANGED <<out, rng>>
                 ELSE IF xs = {}
                 THEN /\ err' = <<"ValueError", "low >= high">>
                      /\ pc' = "raised"
                      /\ rng' = rng + 1
                      /\ UNCHANGED out
                 ELSE IF ys = {}
                 THEN /\ err' = <<"ValueError", "low >= high">>
                      /\ pc' = "raised"
                      /\ rng' = rng + 2
                      /\ UNCHANGED out
                 ELSE /\ \E x \in xs, y \in ys :
                            out' = random_crops_view(Xbuf, cs, x, y)
                      /\ pc' = "returned"
                      /\ rng' = rng + 2
                      /\ UNCHANGED err
    \* the np.zeros buffer of line 27 is dropped when out is rebound
    /\ UNCHANGED <<Xbuf, newbuf>>

(* -------------------------- random_contrast ----------------------------- *)
Scales == {<<0, 0>>, <<2, 2>>, <<-1, 1>>, <<1, 3>>, <<3, 1>>}

(* faulty variant: one factor per image *)
random_contrast_data_per_image(X, scale, k) ==
    [i \in Idx(X.shape) |-> X.data[i] * uniform(scale[1], scale[2], (k + i[1]) % Den)]

(* scalar = np.random.uniform(low, high); out = X * scalar *)
random_contrast_data(X, scale, k) ==
    LET scalar == uniform(scale[1], scale[2], k)
    IN  [i \in Idx(X.shape) |-> X.data[i] * scalar]

CallRandomContrast ==
    /\ pc = "idle"
    /\ \E scale \in Scales, k \in Draws :
          /\ call' = [NoCall EXCEPT !.fn = "random_contrast", !.scale = scale]
          /\ newbuf' = random_contrast_data(Xbuf, scale, k)
    /\ out' = NewArray(Xbuf.shape, Den)
    /\ rng' = rng + 1
    /\ pc' = "returned"
    /\ UNCHANGED <<Xbuf, err>>

(* ---------------------------- random_tint ------------------------------- *)
(* faulty variant: + scale[0] forgotten *)
tint_offsets_unshifted(scale, r) ==
    [nc \in DOMAIN r |-> (scale[2] - scale[1]) * r[nc]]

(* l = (scale[1]-scale[0]) * np.random.random_sample((N,C)) + scale[0] *)
tint_offsets(scale, r) ==
    [nc \in DOMAIN r |-> (scale[2] - scale[1]) * r[nc] + scale[1] * Den]

(* out = X + l[:, :, None, None] *)
random_tint_data(X, scale, r) ==
    LET l == tint_offsets(scale, r)
    IN  [i \in Idx(X.shape) |-> X.data[i] * Den + l[<<i[1], i[2]>>]]

CallRandomTint ==
    /\ pc = "idle"
    /\ \E scale \in Scales,
          r \in [(0..(Xbuf.shape[1]-1)) \X (0..(Xbuf.shape[2]-1)) -> Draws] :
          /\ call' = [NoCall EXCEPT !.fn = "random_tint", !.scale = scale]
          /\ newbuf' = random_tint_data(Xbuf, scale, r)
    /\ out' = NewArray(Xbuf.shape, Den)
    /\ rng' = rng + 1
    /\ pc' = "returned"
    /\ UNCHANGED <<Xbuf, err>>

(* ---------------------------- fixed_crops ------------------------------- *)
CropTypes == {"center", "ul", "ur", "bl", "br", "bogus", "UL"}

(* faulty variant: rounds up *)
center_offset_ceil(dim, crop) == (dim - crop + 1) \div 2

(* x0 = (W - WW) / 2 ; y0 = (H - HH) / 2 : integer division *)
center_offset(dim, crop) == (dim - crop) \div 2

Ret(a) == [out |-> a, err |-> NoErr]
Raise(e) == [out |-> NoOut, err |-> e]

(* faulty variant: the tag is not formatted into the message *)
unrecognized_unformatted(crop_type) ==
    Raise(<<"ValueError", "Unrecognized crop type", "%s">>)

(* raise ValueError('Unrecognized crop type %s' % crop_type) *)
unrecognized(crop_type) ==
    Raise(<<"ValueError", "Unrecognized crop type", crop_type>>)

fixed_crops(X, crop_shape, crop_type) ==
    LET H  == X.shape[3]
        W  == X.shape[4]
        HH == crop_shape[1]
        WW == crop_shape[2]
        x0 == center_offset(W, WW)
        y0 == center_offset(H, HH)
        x1 == x0 + WW
        y1 == y0 + HH
    IN  IF crop_type = "center"
        THEN Ret(View(X, <<Some(y0), Some(y1)>>, <<Some(x0), Some(x1)>>))
        ELSE IF crop_type = "ul"
        THEN Ret(View(X, <<None, Some(HH)>>, <<None, Some(WW)>>))
        ELSE IF crop_type = "ur"
        THEN Ret(View(X, <<None, Some(HH)>>, <<Some(-WW), None>>))
        ELSE IF crop_type = "bl"
        THEN Ret(View(X, <<Some(-HH), None>>, <<None, Some(WW)>>))
        ELSE IF crop_type = "br"
        THEN Ret(View(X, <<Some(-HH), None>>, <<Some(-WW), None>>))
        ELSE unrecognized(crop_type)

CallFixedCrops ==
    /\ pc = "idle"
    /\ \E cs \in CropDims \X CropDims, ct \in CropTypes :
          LET res == fixed_crops(Xbuf, cs, ct) IN
          /\ call' = [NoCall EXCEPT !.fn = "fixed_crops", !.crop_shape = cs,
                                    !.crop_type = ct]
          /\ out' = res.out
          /\ err' = res.err
          /\ pc' = IF res.err = NoErr THEN "returned" ELSE "raised"
    /\ UNCHANGED <<Xbuf, newbuf, rng>>

(* ----------------------- caller writes to the result -------------------- *)
WriteResult ==
    /\ pc = "returned"
    /\ \E i \in Idx(out.shape) :
          LET v == ReadOut(i) + 1 IN
          IF out.base = "X"
          THEN /\ Xbuf' = [Xbuf EXCEPT
                             !.data[<<i[1], i[2], out.off[1] + i[3], out.off[2] + i[4]>>] = v]
               /\ UNCHANGED newbuf
          ELSE /\ newbuf' = [newbuf EXCEPT ![i] = v]
               /\ UNCHANGED Xbuf
    /\ pc' = "written"
    /\ UNCHANGED <<call, out, err, rng>>

Init ==
    /\ \E p \in Patterns, s \in Shapes : Xbuf = MakeX(p, s)
    /\ pc = "idle"
    /\ call = NoCall
    /\ out = NoOut
    /\ newbuf = NoBuf
    /\ err = NoErr
    /\ rng = 0

Next ==
    \/ CallRandomFlips
    \/ CallRandomCrops
    \/ CallRandomContrast
    \/ CallRandomTint
    \/ CallFixedCrops
    \/ WriteResult

Spec == Init /\ [][Next]_vars

(* ======================== properties of the calls ======================= *)
N == Xbuf.shape[1]
C == Xbuf.shape[2]
H == Xbuf.shape[3]
W == Xbuf.shape[4]
HH == call.crop_shape[1]
WW == call.crop_shape[2]
low == call.scale[1]
high == call.scale[2]

Returned(fn) == pc = "returned" /\ call.fn = fn
Called(fn) == pc # "idle" /\ call.fn = fn

Plane == (0..(H-1)) \X (0..(W-1))
XAt(n, c, h, w) == Xbuf.data[<<n, c, h, w>>]

(* the result is the window of X with top-left corner (h0, w0), of the     *)
(* requested crop shape, for every image and channel                       *)
IsWindow(h0, w0) ==
    /\ out.shape = <<N, C, HH, WW>>
    /\ \A i \in Idx(out.shape) : ReadOut(i) = XAt(i[1], i[2], h0 + i[3], w0 + i[4])

(* C1: random_flips returns a batch of the shape of X in which every image *)
(* is, as a whole (all channels and rows), either the image of X at the    *)
(* same position or that image reversed along the width axis.              *)
C1_FlipsPerImage ==
    Returned("random_flips") =>
        /\ out.shape = Xbuf.shape
        /\ \A n \in 0..(N-1) :
              \/ \A c \in 0..(C-1), hw \in Plane :
                    ReadOut(<<n, c, hw[1], hw[2]>>) = XAt(n, c, hw[1], hw[2])
              \/ \A c \in 0..(C-1), hw \in Plane :
                    ReadOut(<<n, c, hw[1], hw[2]>>) = XAt(n, c, hw[1], W - 1 - hw[2])

C1_Witness ==
    /\ Returned("random_flips")
    /\ N = 2 /\ C = 2 /\ W >= 2 /\ H >= 2
    /\ \E i \in Idx(out.shape) : i[1] = 0 /\ ReadOut(i) # Xbuf.data[i]
    /\ \A i \in Idx(out.shape) : i[1] = 1 => ReadOut(i) = Xbuf.data[i]

(* C2: a call of random_crops with HH < H and WW < W returns, and the      *)
(* result has shape (N, C, HH, WW) and is the window of X at one offset    *)
(* pair (x, y), 0 <= x <= H-HH and 0 <= y <= W-WW, for the whole batch.    *)
C2_CropsWindow ==
    (Called("random_crops") /\ HH < H /\ WW < W) =>
        /\ pc \in {"returned", "written"}
        /\ pc = "returned" =>
              \E x \in 0..(H - HH), y \in 0..(W - WW) : IsWindow(x, y)

C2_Witness ==
    /\ Returned("random_crops")
    /\ N = 2 /\ C = 2 /\ HH = 1 /\ WW = 2 /\ H = 3 /\ W = 3
    /\ IsWindow(1, 0)

(* C3: with 1 <= HH <= H and 1 <= WW <= W the corner crops return, with no *)
(* random draw, the window of shape (N, C, HH, WW) anchored at the corner: *)
(* ul first rows/first columns, ur first rows/last columns, bl last        *)
(* rows/first columns, br last rows/last columns.                          *)
C3_CornerCrops ==
    (Called("fixed_crops") /\ 1 <= HH /\ HH <= H /\ 1 <= WW /\ WW <= W
        /\ call.crop_type \in {"ul", "ur", "bl", "br"}) =>
        /\ pc \in {"returned", "written"}
        /\ rng = 0
        /\ pc = "returned" =>
              /\ call.crop_type = "ul" => IsWindow(0, 0)
              /\ call.crop_type = "ur" => IsWindow(0, W - WW)
              /\ call.crop_type = "bl" => IsWindow(H - HH, 0)
              /\ call.crop_type = "br" => IsWindow(H - HH, W - WW)

C3_Witness ==
    /\ Returned("fixed_crops")
    /\ call.crop_type = "ur"
    /\ N = 2 /\ HH = 2 /\ H = 3 /\ WW = 1 /\ W = 3
    /\ IsWindow(0, 2)

(* C4: with HH <= H and WW <= W the center crop returns the window of      *)
(* shape (N, C, HH, WW) at row offset (H-HH)/2 and column offset (W-WW)/2, *)
(* each rounded down to an integer.                                        *)
C4_CenterCrop ==
    (Called("fixed_crops") /\ call.crop_type = "center" /\ HH <= H /\ WW <= W) =>
        /\ pc \in {"returned", "written"}
        /\ pc = "returned" =>
              \E y0 \in 0..H, x0 \in 0..W :
                  /\ 2 * y0 <= H - HH /\ H - HH < 2 * y0 + 2
                  /\ 2 * x0 <= W - WW /\ W - WW < 2 * x0 + 2
                  /\ IsWindow(y0, x0)

C4_Witness ==
    /\ Returned("fixed_crops")
    /\ call.crop_type = "center"
    /\ N >= 1 /\ H = 3 /\ HH = 2 /\ W = 3 /\ WW = 1
    /\ IsWindow(0, 1)

KnownCropTypes == {"center", "ul", "ur", "bl", "br"}

(* C5: fixed_crops with a crop type outside the five known tags raises an  *)
(* error whose message names the tag, and returns nothing.                 *)
C5_UnknownCropType ==
    (Called("fixed_crops") /\ call.crop_type \notin KnownCropTypes) =>
        /\ pc = "raised"
        /\ err = <<"ValueError", "Unrecognized crop type", call.crop_type>>
        /\ out = NoOut

C5_Witness ==
    /\ pc = "raised"
    /\ call.fn = "fixed_crops"
    /\ call.crop_type = "bogus"
    /\ N >= 1 /\ HH > H
    /\ err # NoErr

(* C6: random_crops with HH >= H or WW >= W fails its assertion, before    *)
(* any random offset is drawn, and returns nothing.                        *)
C6_CropsPrecondition ==
    (Called("random_crops") /\ (HH >= H \/ WW >= W)) =>
        /\ pc = "raised"
        /\ err = <<"AssertionError">>
        /\ rng = 0
        /\ out = NoOut

C6_Witness ==
    /\ pc = "raised"
    /\ call.fn = "random_crops"
    /\ HH = H /\ WW < W
    /\ err = <<"AssertionError">>

(* C7: for low <= high random_tint returns a batch of the shape of X in    *)
(* which every (image, channel) plane is X's plane plus one offset of      *)
(* [low, high] (low itself when low = high), the same at every position.   *)
C7_TintPerPlane ==
    (Returned("random_tint") /\ low <= high) =>
        /\ out.shape = Xbuf.shape
        /\ out.den = Den
        /\ \A n \in 0..(N-1), c \in 0..(C-1) :
              \E l \in (low * Den)..(high * Den) :
                  \A hw \in Plane :
                      ReadOut(<<n, c, hw[1], hw[2]>>) = XAt(n, c, hw[1], hw[2]) * Den + l
        /\ low = high =>
              \A i \in Idx(out.shape) : ReadOut(i) = (Xbuf.data[i] + low) * Den

C7_Witness ==
    /\ Returned("random_tint")
    /\ low < high
    /\ N = 2 /\ C = 2 /\ H >= 2 /\ W >= 2
    /\ ReadOut(<<0, 0, 0, 0>>) - XAt(0, 0, 0, 0) * Den
          # ReadOut(<<0, 1, 0, 0>>) - XAt(0, 1, 0, 0) * Den
    /\ ReadOut(<<0, 0, 0, 0>>) - XAt(0, 0, 0, 0) * Den
          # ReadOut(<<1, 0, 0, 0>>) - XAt(1, 0, 0, 0) * Den

FreshFns == {"random_flips", "random_contrast", "random_tint"}
WriteStep == pc = "returned" /\ pc' = "written"

(* C9 as stated: a write to a cell of the result of random_flips,          *)
(* random_contrast, random_tint or the center branch of fixed_crops leaves *)
(* every cell of X unchanged.                                              *)
C9_Original ==
    [][(WriteStep /\ (call.fn \in FreshFns
                        \/ (call.fn = "fixed_crops" /\ call.crop_type = "center")))
          => Xbuf' = Xbuf]_vars

(* C9 amended: a write to a cell of the result of random_flips,            *)
(* random_contrast or random_tint leaves every cell of X unchanged (the    *)
(* result owns new storage); the results of random_crops and of every      *)
(* branch of fixed_crops, center included, are views of X's storage: a     *)
(* write to a cell of such a result changes that cell of X.                *)
C9_Storage ==
    [][WriteStep =>
          IF call.fn \in FreshFns
          THEN out.base = "new" /\ Xbuf' = Xbuf /\ newbuf' # newbuf
          ELSE /\ out.base = "X" /\ newbuf' = newbuf
               /\ \E i \in Idx(out.shape) :
                     LET j == <<i[1], i[2], out.off[1] + i[3], out.off[2] + i[4]>> IN
                     /\ Xbuf'.data[j] # Xbuf.data[j]
                     /\ \A k \in Idx(Xbuf.shape) \ {j} : Xbuf'.data[k] = Xbuf.data[k]]_vars

C9_Witness ==
    /\ pc = "written"
    /\ call.fn = "fixed_crops"
    /\ call.crop_type = "center"
    /\ N = 2 /\ HH = 1 /\ H = 3
    /\ \A p \in Patterns : Xbuf # MakeX(p, Xbuf.shape)

(* C10: every offset random_crops draws is strictly below H-HH (rows) and  *)
(* W-WW (columns), so no cell of the result comes from the last row or the *)
(* last column of X.                                                       *)
C10_CropsNeverLast ==
    Returned("random_crops") =>
        /\ out.off[1] < H - HH
        /\ out.off[2] < W - WW
        /\ \A i \in Idx(out.shape) :
              out.off[1] + i[3] # H - 1 /\ out.off[2] + i[4] # W - 1

C10_Witness ==
    /\ Returned("random_crops")
    /\ N >= 1 /\ H = 3 /\ HH = 1 /\ W = 3 /\ WW = 2
    /\ out.off = <<1, 0>>
    /\ ReadOut(<<0, 0, 0, 1>>) = XAt(0, 0, 1, 1)
====
